---- MODULE Spec2Model ----
(***************************************************************************)
(* Velocity ground constraint elements of the contact solver               *)
(* (src/dynamics/solver/velocity_ground_constraint_element.rs).            *)
(*                                                                         *)
(* A group of contact elements shares one velocity accumulator             *)
(* (mj_lambda2).  solve_group sweeps the normal parts and then the tangent *)
(* parts of the group in array order.                                      *)
(*                                                                         *)
(* Numbers.  The scalar type N is modelled by exact fixed-point numbers:   *)
(* impulses, right-hand sides and velocities are integers counting         *)
(* 1/Unit; the coefficients r, im2, gcross2 and the directions are whole   *)
(* numbers, and the friction coefficient counts 1/CoefDen.  Every product  *)
(* of the code is coefficient x quantity, so it is exact.  Unit leaves     *)
(* enough fractional bits for every multiplication by the friction         *)
(* coefficient of a bounded run to be exact as well.  The one operation    *)
(* that is not exact is the square root inside simd_cap_magnitude (3D):    *)
(* each component of its result is rounded to a neighbouring grid value,   *)
(* either one (rnd).                                                       *)
(***************************************************************************)
EXTENDS Integers, Sequences, FiniteSets, TLC

\* ---------------------------------------------------------------- bounds

\* Number of solve_group calls in a run.
MaxCalls == 2

\* Largest group (elements of one manifold).
MaxElems == 2

\* Denominator of the friction coefficient (limit = 1 means 1/CoefDen).
CoefDen == 2

RECURSIVE Pow2(_)
Pow2(n) == IF n = 0 THEN 1 ELSE 2 * Pow2(n - 1)

\* The fixed-point value of 1 in dim3 runs, whose friction coefficients are
\* whole numbers: the grid that simd_cap_magnitude rounds to.
Unit3 == 4

\* One fractional bit for every tangent solve of a run.
FracBits == MaxCalls * MaxElems

\* The fixed-point value of 1 in dim2 runs.
Unit == Pow2(FracBits)

\* ------------------------------------------------------------ vector math

Abs(x) == IF x < 0 THEN -x ELSE x

\* na::Vector::dot
Dot(a, b) ==
    LET S[i \in 0..Len(a)] == IF i = 0 THEN 0 ELSE S[i - 1] + a[i] * b[i]
    IN  S[Len(a)]

\* WDot::gdot of angular vectors (a scalar product in 2D, a dot product in 3D)
gdot(a, b) == Dot(a, b)

\* vector + vector
VAdd(a, b) == [i \in 1..Len(a) |-> a[i] + b[i]]

\* vector * scalar
VScale(a, k) == [i \in 1..Len(a) |-> a[i] * k]

\* Vector3::cross
Cross(a, b) ==
    << a[2] * b[3] - a[3] * b[2],
       a[3] * b[1] - a[1] * b[3],
       a[1] * b[2] - a[2] * b[1] >>

\* WBasis::orthonormal_vector of a 2D vector
orthonormal_vector(v) == << -v[2], v[1] >>

\* SimdPartialOrd::simd_max
simd_max(a, b) == IF a >= b THEN a ELSE b

\* SimdPartialOrd::simd_clamp
simd_clamp(x, min, max) == IF x < min THEN min ELSE IF x > max THEN max ELSE x

\* Largest k in lo..hi with k * k * n2 <= t (lo satisfies it).
RECURSIVE FloorRoot(_, _, _, _)
FloorRoot(lo, hi, n2, t) ==
    IF lo >= hi THEN lo
    ELSE LET mid == (lo + hi + 1) \div 2
         IN  IF mid * mid * n2 <= t THEN FloorRoot(mid, hi, n2, t)
             ELSE FloorRoot(lo, mid - 1, n2, t)

\* x * (max / n) for n = sqrt(n2) > max >= 0, rounded to the grid: exact
\* when the quotient is on the grid, else the neighbour below (up = 0) or
\* above (up = 1) in magnitude.
ScaleRound(x, max, n2, up) ==
    LET t == (x * max) * (x * max)
        k == FloorRoot(0, max, n2, t)
        m == IF k * k * n2 = t THEN k ELSE k + up
    IN  IF x < 0 THEN -m ELSE m

\* na::Matrix::simd_cap_magnitude on a 2-vector: v if |v| <= max, else
\* v * (max / |v|).
simd_cap_magnitude(v, max, rnd) ==
    LET n2 == v[1] * v[1] + v[2] * v[2]
    IN  IF n2 > max * max
        THEN << ScaleRound(v[1], max, n2, rnd[1]), ScaleRound(v[2], max, n2, rnd[2]) >>
        ELSE v

\* ------------------------------------------------------------------ state

VARIABLES
    DIM,          \* cfg(feature): 2 (dim2) or 3 (dim3)
    elements,     \* the group: a sequence of VelocityGroundConstraintElement
    dir1,         \* solve_group argument: the shared normal direction
    tangent1,     \* solve_group argument (dim3): the first tangent direction
    im2,          \* solve_group argument: inverse mass of the dynamic body
    limit,        \* solve_group argument: the friction coefficient, in 1/CoefDen
    mj_lambda2,   \* the shared DeltaVel accumulator [linear, angular]
    calls,        \* history: the flags of the solve_group calls made so far
    before,       \* history: elements and accumulator when the last call began
    start,        \* history: elements and accumulator after construction
    trace         \* history: the part solves of the last call, in order

vars == << DIM, elements, dir1, tangent1, im2, limit, mj_lambda2, calls, before, start, trace >>

\* --------------------------------------------------------- the part solves

\* VelocityGroundConstraintNormalPart::solve: the violation rate it reads.
NormalDelta(part, dir, mj) ==
    -Dot(dir, mj.linear) + gdot(part.gcross2, mj.angular) + part.rhs

\* Mutant: the normal solve without the simd_max clamp.
NormalPartSolveNoClamp(part, dir, im, mj) ==
    LET dimpulse == NormalDelta(part, dir, mj)
        new_impulse == part.impulse - part.r * dimpulse
        dlambda == new_impulse - part.impulse
    IN  [ part |-> [part EXCEPT !.impulse = new_impulse],
          mj   |-> [ linear  |-> VAdd(mj.linear, VScale(dir, (-im) * dlambda)),
                     angular |-> VAdd(mj.angular, VScale(part.gcross2, dlambda)) ] ]

\* Mutant: the normal solve that drops the accumulated impulse from the
\* candidate.
NormalPartSolveNotAccumulated(part, dir, im, mj) ==
    LET dimpulse == NormalDelta(part, dir, mj)
        new_impulse == simd_max(-(part.r * dimpulse), 0)
        dlambda == new_impulse - part.impulse
    IN  [ part |-> [part EXCEPT !.impulse = new_impulse],
          mj   |-> [ linear  |-> VAdd(mj.linear, VScale(dir, (-im) * dlambda)),
                     angular |-> VAdd(mj.angular, VScale(part.gcross2, dlambda)) ] ]

\* Mutant: the normal solve with the sign of the linear correction flipped.
NormalPartSolveSignFlip(part, dir, im, mj) ==
    LET dimpulse == NormalDelta(part, dir, mj)
        new_impulse == simd_max(part.impulse - part.r * dimpulse, 0)
        dlambda == new_impulse - part.impulse
    IN  [ part |-> [part EXCEPT !.impulse = new_impulse],
          mj   |-> [ linear  |-> VAdd(mj.linear, VScale(dir, im * dlambda)),
                     angular |-> VAdd(mj.angular, VScale(part.gcross2, dlambda)) ] ]

\* VelocityGroundConstraintNormalPart::solve
NormalPartSolve(part, dir, im, mj) ==
    LET dimpulse == NormalDelta(part, dir, mj)
        new_impulse == simd_max(part.impulse - part.r * dimpulse, 0)
        dlambda == new_impulse - part.impulse
    IN  [ part |-> [part EXCEPT !.impulse = new_impulse],
          mj   |-> [ linear  |-> VAdd(mj.linear, VScale(dir, (-im) * dlambda)),
                     angular |-> VAdd(mj.angular, VScale(part.gcross2, dlambda)) ] ]

\* VelocityGroundConstraintTangentPart::solve: the violation rate of axis k.
TangentDelta(part, tangents1, k, mj) ==
    -Dot(tangents1[k], mj.linear) + gdot(part.gcross2[k], mj.angular) + part.rhs[k]

\* Mutant: the dim2 tangent solve clamped from above only.
TangentPartSolveDim2UpperOnly(part, tangents1, im, lim, mj) ==
    LET dimpulse == TangentDelta(part, tangents1, 1, mj)
        candidate == part.impulse[1] - part.r[1] * dimpulse
        new_impulse == IF candidate > lim THEN lim ELSE candidate
        dlambda == new_impulse - part.impulse[1]
    IN  [ part |-> [part EXCEPT !.impulse[1] = new_impulse],
          mj   |-> [ linear  |-> VAdd(mj.linear, VScale(tangents1[1], (-im) * dlambda)),
                     angular |-> VAdd(mj.angular, VScale(part.gcross2[1], dlambda)) ] ]

\* Mutant: the dim2 tangent solve that applies the new impulse, not its
\* change, to the angular velocity.
TangentPartSolveDim2Absolute(part, tangents1, im, lim, mj) ==
    LET dimpulse == TangentDelta(part, tangents1, 1, mj)
        new_impulse == simd_clamp(part.impulse[1] - part.r[1] * dimpulse, -lim, lim)
        dlambda == new_impulse - part.impulse[1]
    IN  [ part |-> [part EXCEPT !.impulse[1] = new_impulse],
          mj   |-> [ linear  |-> VAdd(mj.linear, VScale(tangents1[1], (-im) * dlambda)),
                     angular |-> VAdd(mj.angular, VScale(part.gcross2[1], new_impulse)) ] ]

\* VelocityGroundConstraintTangentPart::solve, cfg(feature = "dim2")
TangentPartSolveDim2(part, tangents1, im, lim, mj) ==
    LET dimpulse == TangentDelta(part, tangents1, 1, mj)
        new_impulse == simd_clamp(part.impulse[1] - part.r[1] * dimpulse, -lim, lim)
        dlambda == new_impulse - part.impulse[1]
    IN  [ part |-> [part EXCEPT !.impulse[1] = new_impulse],
          mj   |-> [ linear  |-> VAdd(mj.linear, VScale(tangents1[1], (-im) * dlambda)),
                     angular |-> VAdd(mj.angular, VScale(part.gcross2[1], dlambda)) ] ]

\* Mutant: the dim3 tangent solve with the violation rates of the two axes
\* swapped in the candidate.
TangentPartSolveDim3AxisMix(part, tangents1, im, lim, mj, rnd) ==
    LET dimpulse_0 == TangentDelta(part, tangents1, 1, mj)
        dimpulse_1 == TangentDelta(part, tangents1, 2, mj)
        candidate == << part.impulse[1] - part.r[1] * dimpulse_1,
                        part.impulse[2] - part.r[2] * dimpulse_0 >>
        new_impulse == simd_cap_magnitude(candidate, lim, rnd)
        dlambda == << new_impulse[1] - part.impulse[1], new_impulse[2] - part.impulse[2] >>
    IN  [ part |-> [part EXCEPT !.impulse = new_impulse],
          mj   |-> [ linear  |-> VAdd(mj.linear,
                                      VAdd(VScale(tangents1[1], (-im) * dlambda[1]),
                                           VScale(tangents1[2], (-im) * dlambda[2]))),
                     angular |-> VAdd(mj.angular,
                                      VAdd(VScale(part.gcross2[1], dlambda[1]),
                                           VScale(part.gcross2[2], dlambda[2]))) ] ]

\* VelocityGroundConstraintTangentPart::solve, cfg(feature = "dim3")
TangentPartSolveDim3(part, tangents1, im, lim, mj, rnd) ==
    LET dimpulse_0 == TangentDelta(part, tangents1, 1, mj)
        dimpulse_1 == TangentDelta(part, tangents1, 2, mj)
        candidate == << part.impulse[1] - part.r[1] * dimpulse_0,
                        part.impulse[2] - part.r[2] * dimpulse_1 >>
        new_impulse == simd_cap_magnitude(candidate, lim, rnd)
        dlambda == << new_impulse[1] - part.impulse[1], new_impulse[2] - part.impulse[2] >>
    IN  [ part |-> [part EXCEPT !.impulse = new_impulse],
          mj   |-> [ linear  |-> VAdd(mj.linear,
                                      VAdd(VScale(tangents1[1], (-im) * dlambda[1]),
                                           VScale(tangents1[2], (-im) * dlambda[2]))),
                     angular |-> VAdd(mj.angular,
                                      VAdd(VScale(part.gcross2[1], dlambda[1]),
                                           VScale(part.gcross2[2], dlambda[2]))) ] ]

\* VelocityGroundConstraintTangentPart::solve: the body the build selects.
TangentPartSolve(part, tangents1, im, lim, mj, rnd) ==
    IF Len(tangents1) = 1
    THEN TangentPartSolveDim2(part, tangents1, im, lim, mj)
    ELSE TangentPartSolveDim3(part, tangents1, im, lim, mj, rnd)

\* ------------------------------------------------------------ solve_group

\* solve_group: let limit = limit * element.normal_part.impulse
ElementLimit(coef, element) == (coef * element.normal_part.impulse) \div CoefDen

\* solve_group: the tangent basis of the friction phase.
Tangents1(dim, dir, tangent) ==
    IF dim = 3 THEN << tangent, Cross(dir, tangent) >> ELSE << orthonormal_vector(dir) >>

\* Mutant: the normal sweep from the last element to the first.
RECURSIVE NormalSweepReversed(_, _, _, _)
NormalSweepReversed(st, i, dir, im) ==
    IF i > Len(st.elements) THEN st
    ELSE LET j == Len(st.elements) + 1 - i
             res == NormalPartSolve(st.elements[j].normal_part, dir, im, st.mj)
         IN  NormalSweepReversed(
                 [ elements |-> [st.elements EXCEPT ![j].normal_part = res.part],
                   mj       |-> res.mj,
                   trace    |-> Append(st.trace,
                                  [ phase |-> "normal", index |-> j, lim |-> 0,
                                    read |-> st.mj, wrote |-> res.mj ]) ],
                 i + 1, dir, im)

\* Mutant: the normal sweep in which every solve reads the accumulator as
\* it stood when the sweep began, and the corrections are summed.
RECURSIVE NormalSweepSnapshot(_, _, _, _)
NormalSweepSnapshot(st, i, dir, im) ==
    IF i > Len(st.elements) THEN st
    ELSE LET snap == IF st.trace = << >> THEN st.mj ELSE st.trace[1].read
             res == NormalPartSolve(st.elements[i].normal_part, dir, im, snap)
             mj == [ linear  |-> VAdd(st.mj.linear, VAdd(res.mj.linear, VScale(snap.linear, -1))),
                     angular |-> VAdd(st.mj.angular, VAdd(res.mj.angular, VScale(snap.angular, -1))) ]
         IN  NormalSweepSnapshot(
                 [ elements |-> [st.elements EXCEPT ![i].normal_part = res.part],
                   mj       |-> mj,
                   trace    |-> Append(st.trace,
                                  [ phase |-> "normal", index |-> i, lim |-> 0,
                                    read |-> snap, wrote |-> mj ]) ],
                 i + 1, dir, im)

\* solve_group: for element in elements.iter_mut() { element.normal_part.solve(..) }
\* st = [elements, mj, trace]; i is the next element.
RECURSIVE NormalSweep(_, _, _, _)
NormalSweep(st, i, dir, im) ==
    IF i > Len(st.elements) THEN st
    ELSE LET res == NormalPartSolve(st.elements[i].normal_part, dir, im, st.mj)
         IN  NormalSweep(
                 [ elements |-> [st.elements EXCEPT ![i].normal_part = res.part],
                   mj       |-> res.mj,
                   trace    |-> Append(st.trace,
                                  [ phase |-> "normal", index |-> i, lim |-> 0,
                                    read |-> st.mj, wrote |-> res.mj ]) ],
                 i + 1, dir, im)

\* Mutant: the friction sweep with the limit of the first element used for
\* every element.
RECURSIVE FrictionSweepFirstLimit(_, _, _, _, _, _)
FrictionSweepFirstLimit(st, i, tangents1, im, coef, rnd) ==
    IF i > Len(st.elements) THEN st
    ELSE LET lim == ElementLimit(coef, st.elements[1])
             res == TangentPartSolve(st.elements[i].tangent_part, tangents1, im, lim,
                                     st.mj, rnd)
         IN  FrictionSweepFirstLimit(
                 [ elements |-> [st.elements EXCEPT ![i].tangent_part = res.part],
                   mj       |-> res.mj,
                   trace    |-> Append(st.trace,
                                  [ phase |-> "friction", index |-> i, lim |-> lim,
                                    read |-> st.mj, wrote |-> res.mj ]) ],
                 i + 1, tangents1, im, coef, rnd)

\* solve_group: for element in elements.iter_mut() { limit; tangent_part.solve(..) }
RECURSIVE FrictionSweep(_, _, _, _, _, _)
FrictionSweep(st, i, tangents1, im, coef, rnd) ==
    IF i > Len(st.elements) THEN st
    ELSE LET lim == ElementLimit(coef, st.elements[i])
             res == TangentPartSolve(st.elements[i].tangent_part, tangents1, im, lim,
                                     st.mj, rnd)
         IN  FrictionSweep(
                 [ elements |-> [st.elements EXCEPT ![i].tangent_part = res.part],
                   mj       |-> res.mj,
                   trace    |-> Append(st.trace,
                                  [ phase |-> "friction", index |-> i, lim |-> lim,
                                    read |-> st.mj, wrote |-> res.mj ]) ],
                 i + 1, tangents1, im, coef, rnd)

\* Mutant: solve_group with the friction phase before the normal phase.
SolveGroupFrictionFirst(elems, dim, dir, tangent, im, coef, mj, solve_normal, solve_friction, rnd) ==
    LET st0 == [ elements |-> elems, mj |-> mj, trace |-> << >> ]
        st1 == IF solve_friction
               THEN FrictionSweep(st0, 1, Tangents1(dim, dir, tangent), im, coef, rnd)
               ELSE st0
    IN  IF solve_normal THEN NormalSweep(st1, 1, dir, im) ELSE st1

\* VelocityGroundConstraintElement::solve_group
SolveGroup(elems, dim, dir, tangent, im, coef, mj, solve_normal, solve_friction, rnd) ==
    LET st0 == [ elements |-> elems, mj |-> mj, trace |-> << >> ]
        st1 == IF solve_normal THEN NormalSweep(st0, 1, dir, im) ELSE st0
    IN  IF solve_friction
        THEN FrictionSweep(st1, 1, Tangents1(dim, dir, tangent), im, coef, rnd)
        ELSE st1

\* ------------------------------------------------------------ construction

\* VelocityGroundConstraintNormalPart, as the contact builder fills it.
NormalPart(g, rhs, r, impulse) ==
    [ gcross2 |-> g, rhs |-> rhs, rhs_wo_bias |-> rhs, impulse |-> impulse, r |-> r ]

\* VelocityGroundConstraintTangentPart, as the contact builder fills it.
TangentPart(g, rhs, r, impulse) ==
    [ gcross2 |-> g, rhs |-> rhs, impulse |-> impulse, r |-> r ]

\* VelocityGroundConstraintElement
Element(n, t) == [ normal_part |-> n, tangent_part |-> t ]

\* The dim2 contacts of the runs, in manifold order.  A warm-started tangent
\* impulse is saturated at the friction limit of the warm-started normal
\* impulse.
Contacts2(coef) ==
    << Element(NormalPart(<< 0 >>, -Unit, 1, 0),
               TangentPart(<< << 0 >> >>, << 2 * Unit >>, << 1 >>, << 0 >>)),
       Element(NormalPart(<< 0 >>, -2 * Unit, 1, 0),
               TangentPart(<< << 0 >> >>, << -Unit >>, << 1 >>, << 0 >>)),
       Element(NormalPart(<< 1 >>, -Unit, 1, 0),
               TangentPart(<< << 1 >> >>, << Unit >>, << 1 >>, << 0 >>)),
       Element(NormalPart(<< 1 >>, Unit, 2, Unit),
               TangentPart(<< << 0 >> >>, << 0 >>, << 1 >>, << (coef * Unit) \div CoefDen >>)),
       Element(NormalPart(<< 0 >>, -Unit, 3, 8 * Unit),
               TangentPart(<< << 1 >> >>, << 5 * Unit >>, << 1 >>, << 0 >>)) >>

\* The dim3 contacts of the runs, in manifold order.
Contacts3(coef) ==
    << Element(NormalPart(<< 0, 0, 0 >>, -Unit3, 1, 0),
               TangentPart(<< << 0, 0, 0 >>, << 0, 0, 0 >> >>, << 2 * Unit3, 0 >>, << 1, 1 >>,
                           << 0, 0 >>)),
       Element(NormalPart(<< 0, 0, 0 >>, -2 * Unit3, 1, 0),
               TangentPart(<< << 0, 0, 0 >>, << 0, 0, 0 >> >>, << -Unit3, Unit3 >>, << 1, 1 >>,
                           << 0, 0 >>)),
       Element(NormalPart(<< 0, 0, 1 >>, -Unit3, 1, Unit3),
               TangentPart(<< << 0, 0, 1 >>, << 1, 0, 0 >> >>, << 3 * Unit3, -4 * Unit3 >>,
                           << 1, 2 >>, << 0, (coef * Unit3) \div CoefDen >>)) >>

\* Groups of 1..MaxElems consecutive contacts of a manifold, taken from any
\* contact on, in either direction around it.
Groups(contacts) ==
    LET m == Len(contacts)
    IN  { [i \in 1..n |-> contacts[((o + d * (i - 1)) % m) + 1]] :
              o \in 0..(m - 1), d \in {1, m - 1}, n \in 1..MaxElems }

\* The accumulators a run may start from.
Accumulators(dim) ==
    IF dim = 3
    THEN { [ linear |-> << 0, 0, 0 >>, angular |-> << 0, 0, 0 >> ],
           [ linear |-> << Unit3, -Unit3, 0 >>, angular |-> << 0, 0, Unit3 >> ] }
    ELSE { [ linear |-> << 0, 0 >>, angular |-> << 0 >> ],
           [ linear |-> << Unit, -Unit >>, angular |-> << Unit >> ] }

Init ==
    /\ DIM \in {2, 3}
    /\ dir1 \in (IF DIM = 3 THEN { << 0, 1, 0 >> } ELSE { << 0, 1 >>, << 1, 0 >> })
    /\ tangent1 \in (IF DIM = 3 THEN { << 1, 0, 0 >> } ELSE { << >> })
    /\ im2 \in {0, 1}
    /\ limit \in (IF DIM = 3 THEN {0, CoefDen} ELSE {0, 1, CoefDen, 2 * CoefDen})
    /\ elements \in Groups(IF DIM = 3 THEN Contacts3(limit) ELSE Contacts2(limit))
    /\ mj_lambda2 \in Accumulators(DIM)
    /\ calls = << >>
    /\ before = [ elements |-> elements, mj |-> mj_lambda2 ]
    /\ start = [ elements |-> elements, mj |-> mj_lambda2 ]
    /\ trace = << >>

\* The rounding directions of the tangent solves of one call (they matter
\* to dim3 friction only).
Roundings(dim, solve_friction) ==
    IF dim = 3 /\ solve_friction THEN {0, 1} \X {0, 1} ELSE { << 0, 0 >> }

\* One call of solve_group on the whole group.
SolveGroupCall(solve_normal, solve_friction, rnd) ==
    /\ Len(calls) < MaxCalls
    /\ LET st == SolveGroup(elements, DIM, dir1, tangent1, im2, limit, mj_lambda2,
                            solve_normal, solve_friction, rnd)
       IN  /\ elements' = st.elements
           /\ mj_lambda2' = st.mj
           /\ trace' = st.trace
    /\ before' = [ elements |-> elements, mj |-> mj_lambda2 ]
    /\ calls' = Append(calls, << solve_normal, solve_friction >>)
    /\ UNCHANGED << DIM, dir1, tangent1, im2, limit, start >>

Next ==
    \E solve_normal \in BOOLEAN, solve_friction \in BOOLEAN :
        \E rnd \in Roundings(DIM, solve_friction) :
            SolveGroupCall(solve_normal, solve_friction, rnd)

Spec == Init /\ [][Next]_vars

\* ----------------------------------------------------------------- claims

Called == Len(calls) > 0

\* Flags of the last call.
LastNormal == Called /\ calls[Len(calls)][1]
LastFriction == Called /\ calls[Len(calls)][2]

Indices == 1..Len(elements)

\* The candidate impulse of a normal solve, before simd_max.
NormalCandidate(part, dir, mj) == part.impulse - part.r * NormalDelta(part, dir, mj)

\* |impulse| <= lim: the scalar in dim2, the Euclidean norm in dim3.
InCone(part, lim) ==
    IF Len(part.impulse) = 1
    THEN Abs(part.impulse[1]) <= lim
    ELSE part.impulse[1] * part.impulse[1] + part.impulse[2] * part.impulse[2] <= lim * lim

\* InCone, up to the rounding of a capped dim3 impulse: each component one
\* grid step nearer to 0 lies in the disk.
Shrink(x) == IF Abs(x) >= 1 THEN Abs(x) - 1 ELSE 0

InConeRounded(part, lim) ==
    IF Len(part.impulse) = 1
    THEN Abs(part.impulse[1]) <= lim
    ELSE Shrink(part.impulse[1]) * Shrink(part.impulse[1])
           + Shrink(part.impulse[2]) * Shrink(part.impulse[2]) <= lim * lim

\* C1 (non-negativity): once a call has solved the normal parts, every
\* element's normal impulse is >= 0, whatever rhs, r, gcross2, inverse mass,
\* direction and accumulator are; it stays so through every later call.
C1_NonNegative ==
    (\E c \in 1..Len(calls) : calls[c][1])
        => \A i \in Indices : elements[i].normal_part.impulse >= 0

\* C1 witness: the last call solved the normal parts and clamped the first
\* element's negative candidate impulse to 0.
C1_Witness ==
    /\ LastNormal
    /\ NormalCandidate(before.elements[1].normal_part, dir1, before.mj) < 0
    /\ before.elements[1].normal_part.impulse > 0
    /\ elements[1].normal_part.impulse = 0

\* C2 as stated (friction-cone containment after every call, whatever the
\* flags): every element's tangent impulse is within friction coefficient x
\* its normal impulse.
C2_ConeAlways ==
    \A i \in Indices : InCone(elements[i].tangent_part, ElementLimit(limit, elements[i]))

\* C2 amended: after a call that solved friction, every element's tangent
\* impulse is within friction coefficient x its normal impulse: exactly in
\* dim2 (box clamp), up to the rounding of the capped vector in dim3 (disk
\* clamp).
C2_ConeAfterFriction ==
    LastFriction =>
        \A i \in Indices :
            InConeRounded(elements[i].tangent_part, ElementLimit(limit, elements[i]))

\* C2 witness: a friction solve has saturated a tangent impulse at a
\* positive limit, in dim2 and ...
C2_Witness2 ==
    /\ DIM = 2 /\ LastFriction
    /\ \E i \in Indices :
         /\ ElementLimit(limit, elements[i]) > 0
         /\ Abs(elements[i].tangent_part.impulse[1]) = ElementLimit(limit, elements[i])
         /\ before.elements[i].tangent_part.impulse # elements[i].tangent_part.impulse

\* ... in dim3, where the capped vector has two non-zero components.
C2_Witness3 ==
    /\ DIM = 3 /\ LastFriction
    /\ \E i \in Indices :
         /\ ElementLimit(limit, elements[i]) > 0
         /\ elements[i].tangent_part.impulse[1] # 0
         /\ elements[i].tangent_part.impulse[2] # 0
         /\ before.elements[i].tangent_part.impulse # elements[i].tangent_part.impulse
         /\ ~InCone([impulse |-> << Abs(elements[i].tangent_part.impulse[1]) + 1,
                                   Abs(elements[i].tangent_part.impulse[2]) + 1 >>],
                    ElementLimit(limit, elements[i]))

\* The part solves a call with these flags makes on n elements, in order.
ExpectedOrder(n, solve_normal, solve_friction) ==
    (IF solve_normal THEN [i \in 1..n |-> << "normal", i >>] ELSE << >>)
        \o (IF solve_friction THEN [i \in 1..n |-> << "friction", i >>] ELSE << >>)

\* C3 (Gauss-Seidel ordering): the part solves of a call are the normal
\* parts in array order followed by the tangent parts in array order (each
\* phase only if its flag is set); the first solve reads the accumulator as
\* it stood when the call began, every later solve reads it exactly as the
\* solve before it left it, and each normal solve's write is the normal
\* solve of that element on what it read.
C3_GaussSeidelOrder ==
    Called =>
        /\ [k \in 1..Len(trace) |-> << trace[k].phase, trace[k].index >>]
             = ExpectedOrder(Len(elements), LastNormal, LastFriction)
        /\ \A k \in 1..Len(trace) :
             /\ trace[k].read = (IF k = 1 THEN before.mj ELSE trace[k - 1].wrote)
             /\ trace[k].phase = "normal" =>
                  trace[k].wrote =
                      NormalPartSolve(before.elements[trace[k].index].normal_part,
                                      dir1, im2, trace[k].read).mj
        /\ mj_lambda2 = (IF trace = << >> THEN before.mj ELSE trace[Len(trace)].wrote)

\* C3 witness: a call with both flags on two elements in which the first
\* normal solve changed the accumulator that the second one read, and the
\* normal phase changed what the friction phase read.
C3_Witness ==
    /\ LastNormal /\ LastFriction /\ Len(elements) = 2 /\ Len(trace) = 4
    /\ trace[2].read # before.mj
    /\ trace[3].read # trace[2].read
    /\ trace[4].read # trace[3].read

\* C4 (friction limit): the limit each tangent solve of a call receives is
\* the friction coefficient times that element's own normal impulse as the
\* normal phase of the same call left it (the value from before the call
\* when the normal phase was skipped).
C4_FreshLimit ==
    Called =>
        \A k \in 1..Len(trace) :
            trace[k].phase = "friction" =>
                LET i == trace[k].index
                    own == IF LastNormal
                           THEN NormalPartSolve(before.elements[i].normal_part, dir1, im2,
                                                trace[i].read).part.impulse
                           ELSE before.elements[i].normal_part.impulse
                IN  /\ trace[k].lim * CoefDen = limit * own
                    /\ elements[i].normal_part.impulse = own

\* C4 witness: a call with both flags on two elements whose normal impulses
\* were both rewritten to different values, each tangent solve getting the
\* limit of its own new impulse.
C4_Witness ==
    /\ LastNormal /\ LastFriction /\ Len(elements) = 2 /\ limit > 0
    /\ \A i \in Indices :
         elements[i].normal_part.impulse # before.elements[i].normal_part.impulse
    /\ elements[1].normal_part.impulse # elements[2].normal_part.impulse
    /\ \A i \in Indices : trace[2 + i].lim * CoefDen = limit * elements[i].normal_part.impulse

\* The concrete dim2 scenario: one contact, normal (0,1), inverse mass 1,
\* gcross2 0, rhs -1, r 1, friction coefficient 0.5, tangential rhs 2,
\* impulses 0, accumulator 0.
Scenario ==
    /\ DIM = 2 /\ dir1 = << 0, 1 >> /\ im2 = 1 /\ limit * 2 = CoefDen
    /\ start.elements =
         << Element(NormalPart(<< 0 >>, -Unit, 1, 0),
                    TangentPart(<< << 0 >> >>, << 2 * Unit >>, << 1 >>, << 0 >>)) >>
    /\ start.mj = [ linear |-> << 0, 0 >>, angular |-> << 0 >> ]

\* C5 (concrete scenario): one normal solve yields normal impulse 1 and
\* linear velocity correction (0,-1); the friction solve that follows gets
\* limit 0.5 and leaves the tangent impulse at exactly -0.5.
C5_Scenario ==
    Scenario =>
        /\ (Len(calls) = 1 /\ LastNormal) =>
              /\ elements[1].normal_part.impulse = Unit
              /\ trace[1].wrote = [ linear |-> << 0, -Unit >>, angular |-> << 0 >> ]
        /\ (calls = << << TRUE, TRUE >> >> \/ calls = << << TRUE, FALSE >>, << FALSE, TRUE >> >>) =>
              /\ trace[Len(trace)].lim * 2 = Unit
              /\ elements[1].tangent_part.impulse[1] * 2 = -Unit

\* C5 witness: the scenario after its normal solve and its friction solve.
C5_Witness ==
    /\ Scenario
    /\ calls = << << TRUE, FALSE >>, << FALSE, TRUE >> >>
    /\ elements[1].normal_part.impulse = Unit
    /\ elements[1].tangent_part.impulse[1] * 2 = -Unit
    /\ mj_lambda2.linear[2] = -Unit

\* The violation rate of every constraint of the group is 0 in state
\* [elements, mj].
Converged(st) ==
    \A i \in 1..Len(st.elements) :
        /\ NormalDelta(st.elements[i].normal_part, dir1, st.mj) = 0
        /\ \A k \in 1..(DIM - 1) :
             TangentDelta(st.elements[i].tangent_part, Tangents1(DIM, dir1, tangent1), k, st.mj) = 0

\* Every tangent impulse of state [elements, mj] is within its friction limit.
AllInCone(st) ==
    \A i \in 1..Len(st.elements) :
        InCone(st.elements[i].tangent_part, ElementLimit(limit, st.elements[i]))

\* C6 as stated (idempotence at convergence): a call with both flags made
\* when every violation rate was 0 left every impulse and the accumulator
\* unchanged.
C6_IdempotentAlways ==
    (LastNormal /\ LastFriction /\ Converged(before)) =>
        /\ elements = before.elements
        /\ mj_lambda2 = before.mj

\* C6 amended: a call with both flags made when every violation rate was 0
\* and every tangent impulse was within its friction limit left every
\* impulse and the accumulator unchanged.
C6_IdempotentInCone ==
    (LastNormal /\ LastFriction /\ Converged(before) /\ AllInCone(before)) =>
        /\ elements = before.elements
        /\ mj_lambda2 = before.mj

\* C6 witness: such a call was made on a group with a non-zero normal and a
\* non-zero tangent impulse that earlier calls had produced.
C6_Witness ==
    /\ Len(calls) > 1 /\ LastNormal /\ LastFriction
    /\ Converged(before) /\ AllInCone(before)
    /\ elements = before.elements
    /\ \E i \in Indices :
         /\ elements[i].normal_part.impulse # start.elements[i].normal_part.impulse
         /\ elements[i].tangent_part.impulse # start.elements[i].tangent_part.impulse
         /\ elements[i].tangent_part.impulse[1] # 0

\* The normal violation rate of the single element of state [elements, mj].
Delta1(st) == NormalDelta(st.elements[1].normal_part, dir1, st.mj)

\* The last two calls both solved the normal part of a single element and
\* left its impulse above the clamp at 0.
UnclampedPair ==
    /\ Len(elements) = 1 /\ Len(calls) >= 2
    /\ calls[Len(calls) - 1][1] /\ calls[Len(calls)][1]
    /\ before.elements[1].normal_part.impulse > 0
    /\ elements[1].normal_part.impulse > 0

\* The effective mass of the normal row: the change of its violation rate
\* per unit of its own impulse.
NormalK(part) == im2 * Dot(dir1, dir1) + gdot(part.gcross2, part.gcross2)

\* C7 as stated (convergence under warm-start), for repeated calls with both
\* flags on a contact whose r is the inverse of the effective mass of its
\* normal row: over two consecutive calls with the impulse not clamped at
\* 0, the magnitude of the normal violation rate after the later call is at
\* most its magnitude after the earlier call.
C7_MonotoneAlways ==
    ( /\ UnclampedPair
      /\ calls[Len(calls) - 1] = << TRUE, TRUE >> /\ calls[Len(calls)] = << TRUE, TRUE >>
      /\ elements[1].normal_part.r * NormalK(elements[1].normal_part) = 1 )
        => Abs(Delta1([elements |-> elements, mj |-> mj_lambda2])) <= Abs(Delta1(before))

\* How much the tangent row of axis k feeds the normal row: the change of
\* the normal violation rate per unit of that axis's tangent impulse.
Coupling(k) ==
    im2 * Dot(dir1, Tangents1(DIM, dir1, tangent1)[k])
        + gdot(elements[1].normal_part.gcross2, elements[1].tangent_part.gcross2[k])

\* C7 amended: over two consecutive calls on a single element with the
\* impulse not clamped at 0, when 0 <= r x K <= 2 for the normal row (K its
\* effective mass; the contact builder's r is 1/K) and the later call's
\* friction phase does not feed the normal row (it is skipped, or no
\* tangent row is coupled to the normal row), the magnitude of the normal
\* violation rate after the later call is at most its magnitude after the
\* earlier call.
C7_MonotoneNormalRow ==
    ( /\ UnclampedPair
      /\ elements[1].normal_part.r * NormalK(elements[1].normal_part) \in 0..2
      /\ (~LastFriction \/ \A k \in 1..(DIM - 1) : Coupling(k) = 0) )
        => Abs(Delta1([elements |-> elements, mj |-> mj_lambda2])) <= Abs(Delta1(before))

\* C7 witness: such a pair of calls in which the violation rate was not 0
\* after the earlier call and got strictly smaller in the later one.
C7_Witness ==
    /\ UnclampedPair
    /\ elements[1].normal_part.r * NormalK(elements[1].normal_part) \in 0..2
    /\ (~LastFriction \/ \A k \in 1..(DIM - 1) : Coupling(k) = 0)
    /\ Delta1(before) # 0
    /\ Abs(Delta1([elements |-> elements, mj |-> mj_lambda2])) < Abs(Delta1(before))

\* Every impulse of element e is 0.
ZeroImpulses(e) ==
    /\ e.normal_part.impulse = 0
    /\ \A k \in 1..Len(e.tangent_part.impulse) : e.tangent_part.impulse[k] = 0

\* Every component of vector v is 0.
IsZero(v) == \A c \in 1..Len(v) : v[c] = 0

\* The run is one call with both flags on a freshly reset group [A, B] of
\* two contacts with different normal rows: zero impulses and a zero
\* accumulator, on a body of inverse mass 1.
FreshPair ==
    /\ Len(elements) = 2 /\ calls = << << TRUE, TRUE >> >>
    /\ ZeroImpulses(start.elements[1]) /\ ZeroImpulses(start.elements[2])
    /\ start.elements[1].normal_part # start.elements[2].normal_part
    /\ IsZero(start.mj.linear) /\ IsZero(start.mj.angular)
    /\ im2 = 1

\* The same call on the same reset state with the array in the order [B, A].
SwappedRun(rnd) ==
    SolveGroup(<< start.elements[2], start.elements[1] >>, DIM, dir1, tangent1, im2, limit,
               start.mj, TRUE, TRUE, rnd)

\* Normal impulses >= 0 and tangent impulses within their limits.
ValidImpulses(elems) ==
    \A i \in 1..Len(elems) :
        /\ elems[i].normal_part.impulse >= 0
        /\ InConeRounded(elems[i].tangent_part, ElementLimit(limit, elems[i]))

\* C8 (order sensitivity): for the freshly reset pairs of contacts of the
\* runs, one call on [A, B] and one call on [B, A] leave A with different
\* normal impulses, and in each run every normal impulse is >= 0 and every
\* tangent impulse is within its friction limit.
C8_OrderSensitive ==
    FreshPair =>
        \A rnd \in Roundings(DIM, TRUE) :
            /\ SwappedRun(rnd).elements[2].normal_part.impulse # elements[1].normal_part.impulse
            /\ ValidImpulses(elements)
            /\ ValidImpulses(SwappedRun(rnd).elements)

\* C8 witness: contact A (rhs -1) before contact B (rhs -2) ends with normal
\* impulse 1, and with normal impulse 0 when solved after B.
C8_Witness ==
    /\ FreshPair /\ DIM = 2
    /\ start.elements[1].normal_part.rhs = -Unit
    /\ start.elements[2].normal_part.rhs = -2 * Unit
    /\ elements[1].normal_part.impulse = Unit
    /\ SwappedRun(<< 0, 0 >>).elements[2].normal_part.impulse = 0

\* C9 (dimension equivalence): in a dim3 state, for every element whose
\* second tangent axis carries nothing (impulse 0, violation rate 0), the
\* dim3 tangent solve gives on the first axis the impulse that the dim2
\* tangent solve gives on the same first-axis inputs with the same limit,
\* and leaves the second-axis impulse at 0.
C9_DimensionEquivalence ==
    DIM = 3 =>
        \A i \in Indices : \A rnd \in Roundings(3, TRUE) :
            LET part == elements[i].tangent_part
                tangents1 == Tangents1(DIM, dir1, tangent1)
                lim == ElementLimit(limit, elements[i])
                d3 == TangentPartSolveDim3(part, tangents1, im2, lim, mj_lambda2, rnd)
                d2 == TangentPartSolveDim2(part, tangents1, im2, lim, mj_lambda2)
            IN  (part.impulse[2] = 0 /\ TangentDelta(part, tangents1, 2, mj_lambda2) = 0)
                    => /\ d3.part.impulse[1] = d2.part.impulse[1]
                       /\ d3.part.impulse[2] = 0

\* C9 witness: a friction-only dim3 call whose first tangent solve found
\* the second axis empty and the first-axis candidate beyond the limit, and
\* capped it to the limit on the first axis.
C9_Witness ==
    /\ DIM = 3 /\ Called /\ ~LastNormal /\ LastFriction
    /\ LET part == before.elements[1].tangent_part
           tangents1 == Tangents1(DIM, dir1, tangent1)
           lim == ElementLimit(limit, before.elements[1])
       IN  /\ part.impulse[2] = 0
           /\ TangentDelta(part, tangents1, 2, before.mj) = 0
           /\ lim > 0
           /\ Abs(part.impulse[1] - part.r[1] * TangentDelta(part, tangents1, 1, before.mj)) > lim
           /\ Abs(elements[1].tangent_part.impulse[1]) = lim
           /\ elements[1].tangent_part.impulse[2] = 0

\* Sum of the vectors f[1..n], from zero.
SumVec(f, n, zero) ==
    LET S[i \in 0..n] == IF i = 0 THEN zero ELSE VAdd(S[i - 1], f[i])
    IN  S[n]

\* The velocity change that the impulse changes of element i since the
\* start produce through its Jacobian: [linear, angular].
ElementEffect(i) ==
    LET tangents1 == Tangents1(DIM, dir1, tangent1)
        dn == elements[i].normal_part.impulse - start.elements[i].normal_part.impulse
        dt == [k \in 1..(DIM - 1) |->
                 elements[i].tangent_part.impulse[k] - start.elements[i].tangent_part.impulse[k]]
    IN  [ linear  |-> SumVec([k \in 1..(DIM - 1) |-> VScale(tangents1[k], (-im2) * dt[k])],
                             DIM - 1, VScale(dir1, (-im2) * dn)),
          angular |-> SumVec([k \in 1..(DIM - 1) |->
                                 VScale(elements[i].tangent_part.gcross2[k], dt[k])],
                             DIM - 1, VScale(elements[i].normal_part.gcross2, dn)) ]

\* C10 (bookkeeping): the accumulator is its starting value plus, over all
\* elements and axes, the change of that axis's impulse applied through its
\* Jacobian: linear -im2 x direction x change, angular gcross2 x change.
C10_Bookkeeping ==
    /\ mj_lambda2.linear =
         SumVec([i \in Indices |-> ElementEffect(i).linear], Len(elements), start.mj.linear)
    /\ mj_lambda2.angular =
         SumVec([i \in Indices |-> ElementEffect(i).angular], Len(elements), start.mj.angular)

\* C10 witness: after two calls on two elements every normal and tangent
\* impulse has changed, and so have the linear and the angular accumulator.
C10_Witness ==
    /\ Len(calls) >= 2 /\ Len(elements) = 2
    /\ \A i \in Indices :
         /\ elements[i].normal_part.impulse # start.elements[i].normal_part.impulse
         /\ elements[i].tangent_part.impulse # start.elements[i].tangent_part.impulse
    /\ mj_lambda2.linear # start.mj.linear
    /\ mj_lambda2.angular # start.mj.angular
====
